---- MODULE Spec2Model ----
(***************************************************************************)
(* A model of snorkel/models/candidate.py: the Ngram span algebra          *)
(* (char <-> word index conversion, slicing, length, span text, equality   *)
(* and hashing), NgramPair subscripting, and the CandidateSet container    *)
(* with its cascading ownership of Candidates.                             *)
(*                                                                         *)
(* Three specifications share the variables:                               *)
(*   Spec      - Ngram objects: slicing, len, get_span, ==, hash, and      *)
(*               subscripting of Ngram and NgramPair                       *)
(*   SpecIndex - char_to_word_index / word_to_char_index over Contexts     *)
(*   SpecSet   - CandidateSet append / remove / delete                     *)
(***************************************************************************)
EXTENDS Integers, Sequences, FiniteSets

VARIABLES
    g,          \* Spec: the Ngram at hand (the last one constructed)
    src,        \* Spec: <<n>> right after g was sliced from the Ngram n, else <<>>
    pair,       \* Spec: an NgramPair
    ctx,        \* SpecIndex: the Context of the Ngram whose methods are called
    op,         \* the last operation performed
    arg,        \* its argument
    result,     \* what it returned or raised
    setState,   \* SpecSet: CandidateSet id -> "absent" | "live" | "deleted"
    candidates, \* SpecSet: CandidateSet id -> its candidates list (of Candidate ids)
    lifecycle,  \* SpecSet: Candidate id -> "transient" | "stored" | "deleted"
    owner,      \* SpecSet: Candidate id -> <<>> or <<s>>, its `set` reference
    shape,      \* SpecSet: Candidate id -> the fields its __eq__ reads
    snap,       \* SpecSet: <<>> or <<record>>, the list as it was before the last append
    ownedAtDelete \* SpecSet: CandidateSet id -> the Candidates it held when deleted

setVars == <<setState, candidates, lifecycle, owner, shape, snap, ownedAtDelete>>
vars == <<g, src, pair, ctx, op, arg, result,
          setState, candidates, lifecycle, owner, shape, snap, ownedAtDelete>>

(***************************************************************************)
(* Bounds of the model.                                                    *)
(***************************************************************************)
\* slice bounds s, e range over None and -MaxSlice..MaxSlice
MaxSlice == 2
\* Ngram coordinates are kept within Margin characters of the Context's text
Margin == 1
\* generated Contexts: word starts within 0..MaxOffset, at most MaxWords words
MaxOffset == 4
MaxWords == 3
\* the Candidate objects and the longest candidates list of SpecSet
MaxCands == 2
MaxLen == 3

(***************************************************************************)
(* Python values.                                                          *)
(***************************************************************************)
\* None, and an optional integer: <<>> is None, <<n>> is n
None == <<>>
Some(n) == <<n>>

Value(v) == [kind |-> "value", val |-> v]
Raised(e) == [kind |-> "error", val |-> e]
NoResult == [kind |-> "none", val |-> 0]

Min(a, b) == IF a < b THEN a ELSE b
Max(a, b) == IF a > b THEN a ELSE b

\* seq[i] for a Python list: a negative i counts from the end, and an i
\* outside -len..len-1 raises IndexError
PyIndex(seq, i) ==
    IF 0 <= i /\ i < Len(seq) THEN Value(seq[i + 1])
    ELSE IF -Len(seq) <= i /\ i < 0 THEN Value(seq[Len(seq) + i + 1])
    ELSE Raised("IndexError")

\* seq[a:b] for a Python string or list: negative bounds count from the end,
\* and bounds outside the sequence are clamped to it
PyClamp(n, i) == IF i < 0 THEN Max(i + n, 0) ELSE Min(i, n)

PySlice(seq, a, b) ==
    LET lo == PyClamp(Len(seq), a)
        hi == PyClamp(Len(seq), b)
    IN  IF lo < hi THEN SubSeq(seq, lo + 1, hi) ELSE <<>>

\* hash() of a small Python int: the value itself, except hash(-1) == -2
PyHashInt(n) == IF n = -1 THEN -2 ELSE n

(***************************************************************************)
(* Contexts. A Context has an id, the start character of each of its       *)
(* words (char_offsets, document-absolute) and its text, whose first       *)
(* character is the one at char_offsets[0].                                *)
(***************************************************************************)
Context(id, char_offsets, text) ==
    [id |-> id, char_offsets |-> char_offsets, text |-> text]

\* the two Contexts the Ngrams of Spec lie in
Contexts ==
    << Context(1, <<0, 3>>, <<"a", "b", " ", "c">>),
       Context(2, <<2, 4>>, <<"x", " ", "y", "z">>) >>

CtxIds == DOMAIN Contexts

\* hash() of a Context: the default object hash, a function of its identity
ContextHash(c) == 16 * c

(***************************************************************************)
(* Ngram: a Candidate with a Context, char_start and char_end (inclusive), *)
(* its owning CandidateSet (set) and an opaque meta payload.               *)
(***************************************************************************)
Ngram(context, char_start, char_end, set, meta) ==
    [type |-> "ngram", context |-> context, char_start |-> char_start,
     char_end |-> char_end, set |-> set, meta |-> meta]

\* Ngram(char_start=..., char_end=..., context=...), as __getitem__ constructs it:
\* no owning set, no meta, and no check of the coordinates
NewNgram(context, char_start, char_end) ==
    Ngram(context, char_start, char_end, None, None)

NgramPair(ngram0, ngram1) ==
    [type |-> "ngram_pair", ngram0 |-> ngram0, ngram1 |-> ngram1]

\* Ngram.__len__
NgramLen(self) == self.char_end - self.char_start + 1

\* Ngram.__eq__
NgramEqNoEnd(self, other) ==
    IF other.type = "ngram"
    THEN self.context = other.context /\ self.char_start = other.char_start
    ELSE FALSE

NgramEq(self, other) ==
    IF other.type = "ngram"
    THEN /\ self.context = other.context
         /\ self.char_start = other.char_start
         /\ self.char_end = other.char_end
    ELSE FALSE

\* Ngram.__hash__
NgramHash(self) ==
    ContextHash(self.context) + PyHashInt(self.char_start) + PyHashInt(self.char_end)

\* Ngram.get_sent_offset, get_sent_char_start, get_sent_char_end
get_sent_offset(self) == Contexts[self.context].char_offsets[1]
get_sent_char_start(self) == self.char_start - get_sent_offset(self)
get_sent_char_end(self) == self.char_end - get_sent_offset(self)

\* Ngram.get_attrib_span('words', sep): a slice of the Context's text
get_attrib_span_exclusive(self) ==
    PySlice(Contexts[self.context].text,
            get_sent_char_start(self), get_sent_char_end(self))

get_attrib_span_words(self) ==
    PySlice(Contexts[self.context].text,
            get_sent_char_start(self), get_sent_char_end(self) + 1)

\* Ngram.get_span
get_span(self) == get_attrib_span_words(self)

(***************************************************************************)
(* Subscript keys. A slice key holds an optional start and stop. A number  *)
(* key stands for every Python key that compares equal to that number      *)
(* (1, 1.0 and True are one key to `key == 1`). The other keys are a       *)
(* string and None.                                                        *)
(***************************************************************************)
SliceKey(start, stop) == [kind |-> "slice", start |-> start, stop |-> stop]
NumKey(n) == [kind |-> "num", val |-> n]
StrKey == [kind |-> "str"]
NoneKey == [kind |-> "none"]

\* Ngram.__getitem__: the char_end of the slice
SliceCharEndExclusive(self, key) ==
    IF key.stop = None THEN self.char_end
    ELSE IF key.stop[1] >= 0 THEN self.char_start + key.stop[1]
    ELSE self.char_end + key.stop[1]

SliceCharEnd(self, key) ==
    IF key.stop = None THEN self.char_end
    ELSE IF key.stop[1] >= 0 THEN self.char_start + key.stop[1] - 1
    ELSE self.char_end + key.stop[1]

\* Ngram.__getitem__: the char_start of the slice
SliceCharStart(self, key) ==
    IF key.start = None THEN self.char_start ELSE self.char_start + key.start[1]

\* Ngram.__getitem__
NgramGetItemAny(self, key) ==
    IF key.kind = "slice"
    THEN Value(NewNgram(self.context, SliceCharStart(self, key), SliceCharEnd(self, key)))
    ELSE Value(self)

NgramGetItem(self, key) ==
    IF key.kind = "slice"
    THEN Value(NewNgram(self.context, SliceCharStart(self, key), SliceCharEnd(self, key)))
    ELSE Raised("NotImplementedError")

\* NgramPair.__getitem__
PairGetItem(self, key) ==
    IF key.kind = "num" /\ key.val = 0 THEN Value(self.ngram0)
    ELSE IF key.kind = "num" /\ key.val = 1 THEN Value(self.ngram1)
    ELSE Raised("KeyError")

(***************************************************************************)
(* Spec: the inputs.                                                       *)
(***************************************************************************)
OptSlice == {None} \cup {Some(n) : n \in -MaxSlice..MaxSlice}
Keys == {SliceKey(s, e) : s \in OptSlice, e \in OptSlice}
            \cup {NumKey(n) : n \in -1..2} \cup {StrKey, NoneKey}

TextStart(c) == Contexts[c].char_offsets[1]
TextEnd(c) == Contexts[c].char_offsets[1] + Len(Contexts[c].text) - 1

\* the Ngram lies within the text of its Context
InText(n) ==
    /\ TextStart(n.context) <= n.char_start
    /\ n.char_start <= n.char_end
    /\ n.char_end <= TextEnd(n.context)

\* the coordinates the model follows
InWindow(n) ==
    /\ n.char_start \in (TextStart(n.context) - Margin)..(TextEnd(n.context) + Margin)
    /\ n.char_end \in (TextStart(n.context) - Margin)..(TextEnd(n.context) + Margin)

\* <<set, meta>> of an Ngram: none, or a CandidateSet and a payload
Attachments == {<<None, None>>, <<Some(1), Some("m")>>}

\* the Ngrams an extraction step hands over: well-formed spans of the text
ExtractedNgrams ==
    UNION {UNION {{Ngram(c, cs, ce, a[1], a[2]) : ce \in cs..TextEnd(c), a \in Attachments} :
                    cs \in TextStart(c)..TextEnd(c)} : c \in CtxIds}

PairSet ==
    {NgramPair(NewNgram(cc[1], TextStart(cc[1]), TextStart(cc[1])),
               NewNgram(cc[2], TextStart(cc[2]), TextEnd(cc[2]))) :
        cc \in {dd \in CtxIds \X CtxIds : dd[1] # dd[2]}}

\* the keys an NgramPair is subscripted with
PairKeys == {NumKey(n) : n \in -1..2} \cup {StrKey, NoneKey, SliceKey(None, None)}

\* what an Ngram is compared with: Ngrams that differ from it in any of its
\* fields, and an NgramPair
Others(n) ==
    {Ngram(c, n.char_start + ds, n.char_end + de, a[1], a[2]) :
        c \in CtxIds, ds \in {0, 1}, de \in {0, 1}, a \in Attachments} \cup PairSet

(***************************************************************************)
(* Spec: the operations on an Ngram and on an NgramPair.                   *)
(***************************************************************************)
\* the variables of the other specifications, which Spec leaves alone
IdleIndex == ctx = Context(0, <<0>>, <<"w">>)
IdleSets ==
    /\ setState = <<>>
    /\ candidates = <<>>
    /\ lifecycle = <<>>
    /\ owner = <<>>
    /\ shape = <<>>
    /\ snap = <<>>
    /\ ownedAtDelete = <<>>
IdleNgrams ==
    /\ g = NewNgram(1, 0, 0)
    /\ src = <<>>
    /\ pair = NgramPair(NewNgram(1, 0, 0), NewNgram(1, 0, 0))

Init ==
    /\ g \in ExtractedNgrams
    /\ src = <<>>
    /\ pair \in PairSet
    /\ op = "init"
    /\ arg = NoneKey
    /\ result = NoResult
    /\ IdleIndex
    /\ IdleSets

\* g[key]: a slice yields a new Ngram, which becomes the Ngram at hand
GetItem(key) ==
    LET r == NgramGetItem(g, key) IN
    /\ r.kind = "value" => InWindow(r.val)
    /\ op' = "getitem"
    /\ arg' = key
    /\ result' = r
    /\ IF r.kind = "value"
       THEN g' = r.val /\ src' = <<g>>
       ELSE g' = g /\ src' = <<>>
    /\ UNCHANGED <<pair, ctx, setVars>>

\* len(g), by Ngram.__len__
Length ==
    /\ op' = "len"
    /\ arg' = NoneKey
    /\ result' = Value(NgramLen(g))
    /\ src' = <<>>
    /\ UNCHANGED <<g, pair, ctx, setVars>>

\* g.get_span()
GetSpan ==
    /\ op' = "get_span"
    /\ arg' = NoneKey
    /\ result' = Value(get_span(g))
    /\ src' = <<>>
    /\ UNCHANGED <<g, pair, ctx, setVars>>

\* g == other, with hash(g), and hash(other) when other is an Ngram
Compare(other) ==
    /\ op' = "eq"
    /\ arg' = other
    /\ result' = Value([eq |-> NgramEq(g, other),
                        hash_self |-> NgramHash(g),
                        hash_other |-> IF other.type = "ngram"
                                       THEN Some(NgramHash(other)) ELSE None])
    /\ src' = <<>>
    /\ UNCHANGED <<g, pair, ctx, setVars>>

\* pair[key]
PairSubscript(key) ==
    /\ op' = "pair_getitem"
    /\ arg' = key
    /\ result' = PairGetItem(pair, key)
    /\ src' = <<>>
    /\ UNCHANGED <<g, pair, ctx, setVars>>

Next ==
    \/ \E key \in Keys : GetItem(key)
    \/ Length
    \/ GetSpan
    \/ \E other \in Others(g) : Compare(other)
    \/ \E key \in PairKeys : PairSubscript(key)

Spec == Init /\ [][Next]_vars

(***************************************************************************)
(* Claims checked under Spec.                                              *)
(***************************************************************************)
\* C1: every Ngram that exists has char_start <= char_end: slicing an Ngram
\* never yields one with char_start > char_end (such a slice is rejected).
C1_WellFormed == g.char_start <= g.char_end

\* C4: g[s:e] is a new Ngram over the same Context, with char_start cs when s
\* is omitted and cs+s otherwise, and char_end ce when e is omitted, cs+e-1
\* when e >= 0 and ce+e when e < 0 (cs, ce being those of the sliced Ngram).
C4_SliceCoordinates ==
    (op = "getitem" /\ arg.kind = "slice") =>
        /\ src # <<>>
        /\ result = Value(g)
        /\ g.context = src[1].context
        /\ g.char_start = IF arg.start = None THEN src[1].char_start
                          ELSE src[1].char_start + arg.start[1]
        /\ g.char_end = CASE arg.stop = None -> src[1].char_end
                          [] arg.stop # None /\ arg.stop[1] >= 0 ->
                                src[1].char_start + arg.stop[1] - 1
                          [] arg.stop # None /\ arg.stop[1] < 0 ->
                                src[1].char_end + arg.stop[1]

\* a slice with a start and a negative stop has been taken
C4_Witness ==
    /\ op = "getitem"
    /\ arg = SliceKey(Some(1), Some(-1))
    /\ src # <<>>
    /\ g.char_start = src[1].char_start + 1
    /\ g.char_end = src[1].char_end - 1

\* C7: g == other iff other is an Ngram with the same Context, char_start and
\* char_end, whatever their sets and meta; and equal Ngrams have equal hashes.
C7_StructuralEquality ==
    op = "eq" =>
        /\ result.val.eq <=>
              /\ arg.type = "ngram"
              /\ arg.context = g.context
              /\ arg.char_start = g.char_start
              /\ arg.char_end = g.char_end
        /\ result.val.eq => result.val.hash_other = Some(result.val.hash_self)

\* two Ngrams of different sets and meta have compared equal
C7_Witness ==
    /\ op = "eq"
    /\ result.val.eq
    /\ arg.set # g.set
    /\ arg.meta # g.meta

\* C9: pair[0] is ngram0, pair[1] is ngram1, any other key raises KeyError;
\* an Ngram subscripted with anything but a slice raises NotImplementedError;
\* and an operation that raises leaves the Ngram and the NgramPair as they were.
C9_UnsupportedAccess ==
    /\ [](/\ op = "pair_getitem" =>
                result = IF arg = NumKey(0) THEN Value(pair.ngram0)
                         ELSE IF arg = NumKey(1) THEN Value(pair.ngram1)
                         ELSE Raised("KeyError")
          /\ (op = "getitem" /\ arg.kind # "slice") =>
                result = Raised("NotImplementedError"))
    /\ [][result'.kind = "error" => (g' = g /\ pair' = pair)]_vars

\* an Ngram has been subscripted with a number
C9_Witness ==
    /\ op = "getitem"
    /\ arg = NumKey(0)
    /\ result = Raised("NotImplementedError")

\* C10 as stated, for the Ngrams with char_start <= char_end: len(g) is
\* char_end - char_start + 1 and is the length of g.get_span().
C10_SpanLength ==
    /\ op = "len" => result.val = g.char_end - g.char_start + 1
    /\ (op = "get_span" /\ g.char_start <= g.char_end) =>
            Len(result.val) = NgramLen(g)

\* C10 amended: len(g) is char_end - char_start + 1; and for an Ngram that lies
\* within its Context's text, get_span() is the text from position
\* char_start - char_offsets[0] to char_end - char_offsets[0] inclusive, of
\* that length.
C10_SpanLengthInText ==
    /\ op = "len" => result.val = g.char_end - g.char_start + 1
    /\ (op = "get_span" /\ InText(g)) =>
            /\ result.val = SubSeq(Contexts[g.context].text,
                                   g.char_start - TextStart(g.context) + 1,
                                   g.char_end - TextStart(g.context) + 1)
            /\ Len(result.val) = NgramLen(g)

\* the span of a sliced Ngram of several characters within the text was read
C10_Witness ==
    /\ op = "get_span"
    /\ InText(g)
    /\ g.set = None
    /\ Len(result.val) >= 2

(***************************************************************************)
(* SpecIndex: char_to_word_index and word_to_char_index, and the word      *)
(* bounds of an Ngram, over a Context drawn from ContextSet.               *)
(***************************************************************************)
\* Ngram.char_to_word_index: the loop over enumerate(char_offsets), from index i
RECURSIVE ScanNoExact(_, _, _)
ScanNoExact(char_offsets, ci, i) ==
    IF i >= Len(char_offsets)
    THEN IF i = 0 THEN None ELSE Some(i - 1)
    ELSE IF ci <= char_offsets[i + 1] THEN Some(i - 1)
    ELSE ScanNoExact(char_offsets, ci, i + 1)

RECURSIVE ScanNoDecrement(_, _, _)
ScanNoDecrement(char_offsets, ci, i) ==
    IF i >= Len(char_offsets)
    THEN IF i = 0 THEN None ELSE Some(i - 1)
    ELSE IF ci = char_offsets[i + 1] THEN Some(i)
    ELSE IF ci < char_offsets[i + 1] THEN Some(i)
    ELSE ScanNoDecrement(char_offsets, ci, i + 1)

RECURSIVE Scan(_, _, _)
Scan(char_offsets, ci, i) ==
    IF i >= Len(char_offsets)
    THEN IF i = 0 THEN None ELSE Some(i - 1)
    ELSE IF ci = char_offsets[i + 1] THEN Some(i)
    ELSE IF ci < char_offsets[i + 1] THEN Some(i - 1)
    ELSE Scan(char_offsets, ci, i + 1)

\* Ngram.char_to_word_index, of an Ngram whose Context has these char_offsets:
\* None, or the index
char_to_word_index_no_exact(char_offsets, ci) == ScanNoExact(char_offsets, ci, 0)
char_to_word_index_no_decrement(char_offsets, ci) == ScanNoDecrement(char_offsets, ci, 0)

char_to_word_index(char_offsets, ci) == Scan(char_offsets, ci, 0)

\* Ngram.word_to_char_index
word_to_char_index(char_offsets, wi) == PyIndex(char_offsets, wi)

\* Ngram.get_word_start, get_word_end
get_word_start(char_offsets, char_start) == char_to_word_index(char_offsets, char_start)
get_word_end(char_offsets, char_end) == char_to_word_index(char_offsets, char_end)

\* Ngram.get_n (both indices are integers when char_offsets is not empty)
get_n(char_offsets, char_start, char_end) ==
    get_word_end(char_offsets, char_end)[1] - get_word_start(char_offsets, char_start)[1] + 1

StrictlyIncreasing(s) == \A i \in 1..(Len(s) - 1) : s[i] < s[i + 1]

\* the text of a generated Context: a one-letter word at each offset, blanks between
GenText(char_offsets) ==
    [i \in 1..(char_offsets[Len(char_offsets)] - char_offsets[1] + 1) |->
        IF \E k \in 1..Len(char_offsets) : char_offsets[k] = char_offsets[1] + i - 1
        THEN "w" ELSE " "]

\* the Context of the spec's example: "The quick fox jumps"
ExampleContext ==
    Context(1, <<0, 4, 10, 14>>,
            <<"T", "h", "e", " ", "q", "u", "i", "c", "k", " ",
              "f", "o", "x", " ", "j", "u", "m", "p", "s">>)

\* Contexts as the tokenizer produces them: char_offsets not empty and strictly
\* increasing
ContextSet ==
    {Context(1, s, GenText(s)) :
        s \in {q \in UNION {[1..n -> 0..MaxOffset] : n \in 1..MaxWords} :
                    StrictlyIncreasing(q)}}
    \cup {ExampleContext}

LastOffset(c) == c.char_offsets[Len(c.char_offsets)]
\* the character indices and word indices the methods are called with
CharArgs(c) == (c.char_offsets[1] - 1)..(LastOffset(c) + 2)
WordArgs(c) == (-Len(c.char_offsets) - 1)..(Len(c.char_offsets) + 1)

InitIndex ==
    /\ ctx \in ContextSet
    /\ op = "init"
    /\ arg = 0
    /\ result = NoResult
    /\ IdleNgrams
    /\ IdleSets

\* self.char_to_word_index(ci)
CharToWord(ci) ==
    /\ op' = "char_to_word_index"
    /\ arg' = ci
    /\ result' = Value(char_to_word_index(ctx.char_offsets, ci))
    /\ UNCHANGED <<ctx, g, src, pair, setVars>>

\* self.word_to_char_index(wi)
WordToChar(wi) ==
    /\ op' = "word_to_char_index"
    /\ arg' = wi
    /\ result' = word_to_char_index(ctx.char_offsets, wi)
    /\ UNCHANGED <<ctx, g, src, pair, setVars>>

\* self.char_to_word_index(self.word_to_char_index(wi))
RoundTrip(wi) ==
    LET r == word_to_char_index(ctx.char_offsets, wi) IN
    /\ op' = "round_trip"
    /\ arg' = wi
    /\ result' = IF r.kind = "error" THEN r
                 ELSE Value(char_to_word_index(ctx.char_offsets, r.val))
    /\ UNCHANGED <<ctx, g, src, pair, setVars>>

\* get_word_start(), get_word_end() and get_n() of the Ngram
\* (char_start, char_end) over the Context
WordBounds(char_start, char_end) ==
    /\ char_start <= char_end
    /\ op' = "get_n"
    /\ arg' = <<char_start, char_end>>
    /\ result' = Value([word_start |-> get_word_start(ctx.char_offsets, char_start),
                        word_end |-> get_word_end(ctx.char_offsets, char_end),
                        n |-> get_n(ctx.char_offsets, char_start, char_end)])
    /\ UNCHANGED <<ctx, g, src, pair, setVars>>

NextIndex ==
    \/ \E ci \in CharArgs(ctx) : CharToWord(ci)
    \/ \E wi \in WordArgs(ctx) : WordToChar(wi)
    \/ \E wi \in WordArgs(ctx) : RoundTrip(wi)
    \/ \E cs \in CharArgs(ctx), ce \in CharArgs(ctx) : WordBounds(cs, ce)

SpecIndex == InitIndex /\ [][NextIndex]_vars

(***************************************************************************)
(* Claims checked under SpecIndex.                                         *)
(***************************************************************************)
\* the greatest index i (from 0) with char_offsets[i] <= ci
GreatestIndex(char_offsets, ci) ==
    CHOOSE i \in 0..(Len(char_offsets) - 1) :
        /\ char_offsets[i + 1] <= ci
        /\ \A j \in 0..(Len(char_offsets) - 1) : char_offsets[j + 1] <= ci => j <= i

\* C2: for ci >= char_offsets[0], char_to_word_index(ci) is the greatest index
\* i with char_offsets[i] <= ci; get_word_start, get_word_end and get_n of an
\* Ngram follow from it.
C2_GreatestIndex ==
    /\ (op = "char_to_word_index" /\ arg >= ctx.char_offsets[1]) =>
            result = Value(Some(GreatestIndex(ctx.char_offsets, arg)))
    /\ (op = "get_n" /\ arg[1] >= ctx.char_offsets[1]) =>
            /\ result.val.word_start = Some(GreatestIndex(ctx.char_offsets, arg[1]))
            /\ result.val.word_end = Some(GreatestIndex(ctx.char_offsets, arg[2]))
            /\ result.val.n = GreatestIndex(ctx.char_offsets, arg[2])
                                - GreatestIndex(ctx.char_offsets, arg[1]) + 1

\* the spec's example: Ngram(4, 12) over "The quick fox jumps" spans words 1..2
C2_Witness ==
    /\ ctx = ExampleContext
    /\ op = "get_n"
    /\ arg = <<4, 12>>
    /\ result = Value([word_start |-> Some(1), word_end |-> Some(2), n |-> 2])

\* C3: char_to_word_index(word_to_char_index(wi)) == wi for 0 <= wi < len(char_offsets),
\* and char_to_word_index(char_offsets[k]) == k.
C3_RoundTrip ==
    /\ (op = "round_trip" /\ arg \in 0..(Len(ctx.char_offsets) - 1)) =>
            result = Value(Some(arg))
    /\ op = "char_to_word_index" =>
            \A k \in 0..(Len(ctx.char_offsets) - 1) :
                ctx.char_offsets[k + 1] = arg => result = Value(Some(k))

\* the round trip was made from the last of several words
C3_Witness ==
    /\ op = "round_trip"
    /\ Len(ctx.char_offsets) >= 2
    /\ arg = Len(ctx.char_offsets) - 1
    /\ result = Value(Some(arg))

\* C8: word_to_char_index(wi) is char_offsets[wi] for 0 <= wi < len(char_offsets)
\* and raises IndexError for every other wi, negative ones included.
C8_IndexChecked ==
    op = "word_to_char_index" =>
        result = IF arg \in 0..(Len(ctx.char_offsets) - 1)
                 THEN Value(ctx.char_offsets[arg + 1])
                 ELSE Raised("IndexError")

(***************************************************************************)
(* SpecSet: CandidateSets and the Candidates they own. A CandidateSet has  *)
(* a `candidates` list, the backref of Candidate.set, declared with        *)
(* cascade='all, delete-orphan': a Candidate appended to the list takes    *)
(* the set as its `set` and is stored with it, a Candidate that leaves the *)
(* list is deleted, and deleting the set deletes the Candidates in its     *)
(* list. A Candidate belongs to one CandidateSet for its lifetime, and a   *)
(* deleted object is not used again.                                       *)
(***************************************************************************)
SetIds == {1, 2}
CandIds == 1..MaxCands

\* what __eq__ reads of a Candidate: an Ngram's Context and coordinates; an
\* NgramPair has the default __eq__, identity
NgramShape(context, char_start, char_end) ==
    [type |-> "ngram", context |-> context, char_start |-> char_start,
     char_end |-> char_end]

CandidateShapes ==
    << NgramShape(1, 0, 0), NgramShape(1, 0, 1),
       NgramPair(NgramShape(1, 0, 0), NgramShape(1, 0, 1)) >>

\* the Candidate objects at hand: any shapes, equal ones included. Candidate
\* ids are interchangeable, so the shapes are taken in order of id
ShapeAssignments ==
    {[c \in CandIds |-> CandidateShapes[f[c]]] :
        f \in {h \in [CandIds -> DOMAIN CandidateShapes] :
                    \A c \in CandIds, d \in CandIds : c <= d => h[c] <= h[d]}}

\* element == item, as list.remove compares: the same object, or two Ngrams
\* that Ngram.__eq__ finds equal
CandidateEq(element, item) ==
    \/ element = item
    \/ /\ shape[element].type = "ngram"
       /\ NgramEq(shape[element], shape[item])

\* CandidateSet.append: list.append
ListAppend(seq, item) == Append(seq, item)

\* the position (from 1) of the first element that equals item, 0 if none does
FirstEqual(seq, item) ==
    IF \E k \in 1..Len(seq) : CandidateEq(seq[k], item)
    THEN CHOOSE k \in 1..Len(seq) :
            /\ CandidateEq(seq[k], item)
            /\ \A j \in 1..(k - 1) : ~CandidateEq(seq[j], item)
    ELSE 0

\* CandidateSet.remove: list.remove, which drops the first element that equals
\* item (the list must hold one)
ListRemoveAll(seq, item) == SelectSeq(seq, LAMBDA e : ~CandidateEq(e, item))

ListRemove(seq, item) ==
    LET k == FirstEqual(seq, item)
    IN  SubSeq(seq, 1, k - 1) \o SubSeq(seq, k + 1, Len(seq))

\* CandidateSet.__len__
SetLen(s) == Len(candidates[s])

Elements(seq) == {seq[k] : k \in 1..Len(seq)}

\* the lifecycle of the Candidates once set s is deleted: cascade='all'
\* includes 'delete', so those in its list are deleted with it
CascadeNone(s) == lifecycle

CascadeDelete(s) ==
    [c \in CandIds |-> IF c \in Elements(candidates[s]) THEN "deleted" ELSE lifecycle[c]]

InitSet ==
    /\ setState = [s \in SetIds |-> "absent"]
    /\ candidates = [s \in SetIds |-> <<>>]
    /\ lifecycle = [c \in CandIds |-> "transient"]
    /\ owner = [c \in CandIds |-> None]
    /\ shape \in ShapeAssignments
    /\ snap = <<>>
    /\ ownedAtDelete = [s \in SetIds |-> {}]
    /\ op = "init"
    /\ arg = <<>>
    /\ result = NoResult
    /\ IdleNgrams
    /\ IdleIndex

\* CandidateSet(name=...), added to the session
CreateSet(s) ==
    /\ setState[s] = "absent"
    /\ setState' = [setState EXCEPT ![s] = "live"]
    /\ snap' = <<>>
    /\ result' = NoResult
    /\ UNCHANGED <<candidates, lifecycle, owner, shape, ownedAtDelete, g, src, pair, ctx, op, arg>>

\* s.append(c)
AppendCandidate(s, c) ==
    /\ setState[s] = "live"
    /\ lifecycle[c] # "deleted"
    /\ owner[c] \in {None, Some(s)}
    /\ Len(candidates[s]) < MaxLen
    /\ candidates' = [candidates EXCEPT ![s] = ListAppend(@, c)]
    /\ owner' = [owner EXCEPT ![c] = Some(s)]
    /\ lifecycle' = [lifecycle EXCEPT ![c] = "stored"]
    /\ snap' = <<[set |-> s, item |-> c, before |-> candidates[s], phase |-> "appended"]>>
    /\ result' = NoResult
    /\ UNCHANGED <<setState, shape, ownedAtDelete, g, src, pair, ctx, op, arg>>

\* s.remove(c): ValueError when no element equals c; else the first element
\* that equals c leaves the list and, if the list holds it no more, is an
\* orphan and is deleted
RemoveCandidate(s, c) ==
    /\ setState[s] = "live"
    /\ lifecycle[c] # "deleted"
    /\ IF FirstEqual(candidates[s], c) = 0
       THEN /\ result' = Raised("ValueError")
            /\ snap' = <<>>
            /\ UNCHANGED <<candidates, owner, lifecycle>>
       ELSE LET e == candidates[s][FirstEqual(candidates[s], c)]
                rest == ListRemove(candidates[s], c)
            IN  /\ result' = NoResult
                /\ candidates' = [candidates EXCEPT ![s] = rest]
                /\ owner' = IF e \in Elements(rest) THEN owner
                            ELSE [owner EXCEPT ![e] = None]
                /\ lifecycle' = IF e \in Elements(rest) THEN lifecycle
                                ELSE [lifecycle EXCEPT ![e] = "deleted"]
                /\ snap' = IF /\ snap # <<>>
                              /\ snap[1].phase = "appended"
                              /\ snap[1].set = s
                              /\ snap[1].item = c
                           THEN <<[snap[1] EXCEPT !.phase = "removed"]>>
                           ELSE <<>>
    /\ UNCHANGED <<setState, shape, ownedAtDelete, g, src, pair, ctx, op, arg>>

\* session.delete(s): the delete cascades to the Candidates in s.candidates
DeleteSet(s) ==
    /\ setState[s] = "live"
    /\ setState' = [setState EXCEPT ![s] = "deleted"]
    /\ ownedAtDelete' = [ownedAtDelete EXCEPT ![s] = Elements(candidates[s])]
    /\ lifecycle' = CascadeDelete(s)
    /\ candidates' = [candidates EXCEPT ![s] = <<>>]
    /\ snap' = <<>>
    /\ result' = NoResult
    /\ UNCHANGED <<owner, shape, g, src, pair, ctx, op, arg>>

NextSet ==
    \/ \E s \in SetIds : CreateSet(s)
    \/ \E s \in SetIds, c \in CandIds : AppendCandidate(s, c)
    \/ \E s \in SetIds, c \in CandIds : RemoveCandidate(s, c)
    \/ \E s \in SetIds : DeleteSet(s)

SpecSet == InitSet /\ [][NextSet]_vars

(***************************************************************************)
(* Claims checked under SpecSet.                                           *)
(***************************************************************************)
\* S.remove(c) has just followed S.append(c)
AppendedThenRemoved == snap # <<>> /\ snap[1].phase = "removed"

\* two candidate sequences hold equal elements (by ==) in the same order
SameSequence(a, b) ==
    /\ Len(a) = Len(b)
    /\ \A k \in 1..Len(a) : CandidateEq(a[k], b[k])

\* C5: S.append(c) followed by S.remove(c) leaves S's candidate sequence (the
\* same elements, as == compares them, in the same order) and len(S) as they
\* were before the append, whatever S held.
C5_AppendRemoveRestores ==
    AppendedThenRemoved =>
        /\ SameSequence(candidates[snap[1].set], snap[1].before)
        /\ SetLen(snap[1].set) = Len(snap[1].before)

\* C5 amended: S.append(c) followed by S.remove(c) leaves len(S) as it was, and
\* leaves S's candidate sequence as it was when S held no candidate that
\* compares equal to c before the append.
C5_AppendRemoveRestoresUnlessEqual ==
    AppendedThenRemoved =>
        /\ SetLen(snap[1].set) = Len(snap[1].before)
        /\ (\A e \in Elements(snap[1].before) : ~CandidateEq(e, snap[1].item)) =>
                candidates[snap[1].set] = snap[1].before

\* a candidate was appended to a set holding another, not equal to it, and removed
C5_Witness ==
    /\ AppendedThenRemoved
    /\ Len(snap[1].before) >= 1
    /\ \A e \in Elements(snap[1].before) : ~CandidateEq(e, snap[1].item)
    /\ candidates[snap[1].set] = snap[1].before

====
